---- MODULE Spec2Model ----
(***************************************************************************)
(* Model of utils_cv/detection/dataset.py: parse_pascal_voc_anno and the   *)
(* DetectionDataset index construction (_read_annos) and train/test split  *)
(* (split_train_test).                                                     *)
(*                                                                         *)
(* Conventions.  Python None is the empty sequence <<>> and a present      *)
(* value v is <<v>>.  A file path is identified by the basename stem of    *)
(* the file (a natural number); the directory is fixed by the mode.  An    *)
(* <object> element is represented by its <name> text; box coordinates     *)
(* are not modelled.  Python sequences are 1-based TLA+ sequences holding  *)
(* the 0-based values of the code.  The COCO branch (anno_file) is not     *)
(* modelled.                                                               *)
(***************************************************************************)
EXTENDS Integers, Sequences, FiniteSets, TLC

VARIABLES
    pc,           \* position in __init__ / parse call
    im_dir,       \* TRUE iff self.im_dir is not None
    mask_dir,     \* TRUE iff self.mask_dir is truthy
    seed,         \* self.seed, <<>> for None
    train_pct,    \* self.train_pct as a numerator over PctDen
    n_files,      \* len(anno_filenames)
    seen,         \* what _read_annos found for each file visited so far
    im_paths, anno_paths, anno_bboxes, mask_paths,
    labels,       \* self.labels
    rerun_labels, \* self.labels of a second interpreter run on the same input
    rng,          \* state of torch's global generator
    train_idx, test_idx, is_test,
    split_pct,    \* train_pct argument of the last split_train_test call
    n_splits,     \* number of split_train_test calls so far
    doc,          \* the XML document handed to parse_pascal_voc_anno
    arg_labels,   \* the labels argument of parse_pascal_voc_anno
    parsed,       \* the result of parse_pascal_voc_anno
    train_dl,     \* indices of the Subset held by self.train_dl
    test_dl,      \* indices of the Subset held by self.test_dl
    item          \* the last sample materialized through one of them

vars == <<pc, im_dir, mask_dir, seed, train_pct, n_files, seen, im_paths,
          anno_paths, anno_bboxes, mask_paths, labels, rerun_labels, rng,
          train_idx, test_idx, is_test, split_pct, n_splits, doc,
          arg_labels, parsed, train_dl, test_dl, item>>

indexVars == <<im_dir, mask_dir, n_files, seen, im_paths, anno_paths,
               anno_bboxes, mask_paths, labels, rerun_labels>>
splitVars == <<rng, train_idx, test_idx, is_test, split_pct, n_splits>>
parseVars == <<doc, arg_labels, parsed>>
loaderVars == <<train_dl, test_dl, item>>

----------------------------------------------------------------------------
(* Bounds *)

MaxN == 4        \* records in a dataset handed to the splitter
MaxFiles == 3    \* files in the annotation / image directory
MaxBoxes == 1    \* <object> elements in one annotation
MaxSeed == 2     \* largest seed value
PctBits == 2     \* train_pct ranges over k / 2^PctBits, k >= 1
MaxSplits == 2   \* split_train_test calls on one dataset

PctDen == 2 ^ PctBits
Pcts == 1 .. PctDen   \* train_pct in (0, 1]
LabelNames == {"a", "b"}
Seeds == {<<>>} \cup {<<s>> : s \in 0 .. MaxSeed}

----------------------------------------------------------------------------
(* Python helpers *)

None == <<>>
Some(v) == <<v>>

RECURSIVE Fact(_)
Fact(n) == IF n <= 1 THEN 1 ELSE n * Fact(n - 1)

Min(a, b) == IF a < b THEN a ELSE b

(* s[lo:hi] for 0 <= lo, 0 <= hi; the slice is clipped to the list *)
Slice(s, lo, hi) == SubSeq(s, lo + 1, Min(hi, Len(s)))

(* list.index: the 0-based position of the first occurrence *)
ListIndex(s, x) ==
    (CHOOSE i \in 1 .. Len(s) : s[i] = x /\ \A j \in 1 .. i - 1 : s[j] # x) - 1

SeqsUpTo(S, n) == UNION {[1 .. m -> S] : m \in 0 .. n}

(* all orders in which a set can be iterated *)
Orders(S) ==
    {s \in [1 .. Cardinality(S) -> S] :
        \A i, j \in 1 .. Cardinality(S) : i # j => s[i] # s[j]}

Range(s) == {s[i] : i \in 1 .. Len(s)}

----------------------------------------------------------------------------
(* parse_pascal_voc_anno.  An XML element is [text, children]: its text    *)
(* (None when it has none) and the number of its child elements.           *)
(* root.find(tag) is None or the element.                                  *)

Elem(text, children) == [text |-> text, children |-> children]
NoDoc == [path |-> None, filename |-> None, objects |-> <<>>]
NoResult == [status |-> "none", anno_bboxes |-> <<>>, im_path |-> None]
Raise(e) == [status |-> e, anno_bboxes |-> <<>>, im_path |-> None]

(* lines 99-104; im_path is the image the annotation names *)
Box(name, idx, im) == [label_name |-> name, label_idx |-> idx, im_path |-> im]

(* Element.__bool__: an element is true iff it has child elements *)
ElemTruthy(found) == found # None /\ found[1].children # 0

(* lines 73-81: the element whose text names the image *)
ImPathSource(d) == IF ElemTruthy(d.path) THEN "path" ELSE "filename"

(* lines 94-97 *)
ParseLabelIdx(lbls, name) ==
    IF lbls = None THEN None ELSE Some(ListIndex(lbls[1], name))

parse_pascal_voc_anno(exists, d, lbls) ==
    LET src == IF ImPathSource(d) = "path" THEN d.path ELSE d.filename
    IN  IF ~exists THEN Raise("FileNotFoundError")
        ELSE IF src = None THEN Raise("AttributeError")
        ELSE IF src[1].text = None THEN Raise("TypeError")
        ELSE IF lbls # None /\ \E i \in 1 .. Len(d.objects) :
                                   d.objects[i] \notin Range(lbls[1])
             THEN Raise("ValueError")
        ELSE [status |-> "ok",
              anno_bboxes |-> [i \in 1 .. Len(d.objects) |->
                                Box(d.objects[i],
                                    ParseLabelIdx(lbls, d.objects[i]),
                                    src[1].text[1])],
              im_path |-> src[1].text[1]]

(* the <path> elements an annotation of image p can carry *)
PathElems(p) == {None, Some(Elem(Some(p), 0)), Some(Elem(Some(p), 1)),
                 Some(Elem(None, 1))}
FilenameElems(f) == {None, Some(Elem(Some(f), 0))}
ObjectLists == SeqsUpTo(LabelNames, MaxBoxes)
Docs(p, f) == [path : PathElems(p), filename : FilenameElems(f),
               objects : ObjectLists]
LabelArgs == {None, Some(<<"a", "b">>), Some(<<"b">>)}

ParseAnno ==
    /\ pc = "parse"
    /\ parsed' = parse_pascal_voc_anno(TRUE, doc, arg_labels)
    /\ pc' = "parsed"
    /\ UNCHANGED <<seed, train_pct, indexVars, splitVars, doc, arg_labels,
                   loaderVars>>

----------------------------------------------------------------------------
(* torch's global generator.  torch.manual_seed puts it in a state that is *)
(* a function of the seed; torch.randperm(n) returns the permutation the   *)
(* current state decodes to and advances the state.                        *)

RngMod == Fact(MaxN)
RngStates == 0 .. RngMod - 1

manual_seed(s) == s % RngMod

RemoveAt(s, i) == SubSeq(s, 1, i - 1) \o SubSeq(s, i + 1, Len(s))

RECURSIVE Decode(_, _)
Decode(k, avail) ==
    IF avail = <<>> THEN <<>>
    ELSE LET f == Fact(Len(avail) - 1)
             i == ((k \div f) % Len(avail)) + 1
         IN  <<avail[i]>> \o Decode(k % f, RemoveAt(avail, i))

randperm(g, n) == Decode(g % Fact(n), [i \in 1 .. n |-> i - 1])
Advance(g) == (g + 1) % RngMod

----------------------------------------------------------------------------
(* DetectionDataset.split_train_test *)

DatasetLen == Len(im_paths)

(* math.floor(len(self) * (1 - train_pct)); exact for train_pct = k / 2^b *)
TestNum(n, pct) == (n * (PctDen - pct)) \div PctDen

(* if self.seed: torch.manual_seed(self.seed) *)
SeedTruthy(sd) == sd # None /\ sd[1] # 0
RngForSplit(sd, g) == IF SeedTruthy(sd) THEN manual_seed(sd[1]) ELSE g

(* mutant: the train slice starts after the last test position *)
TrainIdxDisjoint(indices, test_num) == Slice(indices, test_num + 1, Len(indices))
TrainIdx(indices, test_num) == Slice(indices, test_num, Len(indices))
TestIdx(indices, test_num) == Slice(indices, 0, test_num + 1)

IsTest(n, tidx) == [i \in 0 .. n - 1 |-> i \in Range(tidx)]

SplitTrainTest(pct) ==
    LET n == DatasetLen
        test_num == TestNum(n, pct)
        g == RngForSplit(seed, rng)
        indices == randperm(g, n)
    IN  /\ rng' = Advance(g)
        /\ train_idx' = TrainIdx(indices, test_num)
        /\ test_idx' = TestIdx(indices, test_num)
        /\ is_test' = IsTest(n, test_idx')
        /\ split_pct' = pct
        /\ n_splits' = n_splits + 1

(* __init__: self._get_dataloader(train_pct) *)
GetDataloader ==
    /\ pc = "indexed"
    /\ SplitTrainTest(train_pct)
    /\ train_dl' = train_idx'
    /\ test_dl' = test_idx'
    /\ pc' = "constructed"
    /\ UNCHANGED <<seed, train_pct, indexVars, parseVars, item>>

(* a later call of the public method on the constructed dataset *)
Resplit ==
    /\ pc = "constructed"
    /\ n_splits < MaxSplits
    /\ \E pct \in Pcts : SplitTrainTest(pct)
    /\ UNCHANGED <<pc, seed, train_pct, indexVars, parseVars, loaderVars>>

----------------------------------------------------------------------------
(* DetectionDataset.__getitem__ reached through the Subsets of the loaders *)

NoItem == [ds |-> "none", idx |-> 0, transform |-> 0]

(* _get_transforms: self.transforms[self.is_test[idx]], transforms being
   the pair (train pipeline, test pipeline) *)
TransformIndex(idx) == IF is_test[idx] THEN 1 ELSE 0

(* Subset.__getitem__(pos) is dataset[indices[pos]]; lines 392-434 *)
GetItem ==
    /\ pc = "constructed"
    /\ \E ds \in {"train", "test"} :
        LET indices == IF ds = "train" THEN train_dl ELSE test_dl
        IN  \E pos \in 1 .. Len(indices) :
                item' = [ds |-> ds, idx |-> indices[pos],
                         transform |-> TransformIndex(indices[pos])]
    /\ UNCHANGED <<pc, seed, train_pct, indexVars, splitVars, parseVars,
                   train_dl, test_dl>>

(* a dataset whose index holds n records, as _read_annos leaves it *)
InitSplit ==
    /\ pc = "indexed"
    /\ im_dir = TRUE
    /\ mask_dir = FALSE
    /\ seed \in Seeds
    /\ train_pct \in Pcts
    /\ n_files \in 0 .. MaxN
    /\ seen = [i \in 1 .. n_files |-> [exists |-> TRUE, nboxes |-> 1, mask |-> TRUE]]
    /\ im_paths = [i \in 1 .. n_files |-> i]
    /\ anno_paths = [i \in 1 .. n_files |-> i]
    /\ anno_bboxes = [i \in 1 .. n_files |-> <<Box("a", Some(1), i)>>]
    /\ mask_paths = <<>>
    /\ labels = IF n_files = 0 THEN <<>> ELSE <<"a">>
    /\ rerun_labels = labels
    /\ rng \in RngStates
    /\ train_idx = <<>>
    /\ test_idx = <<>>
    /\ is_test = <<>>
    /\ split_pct = train_pct
    /\ n_splits = 0
    /\ doc = NoDoc
    /\ arg_labels = None
    /\ parsed = NoResult
    /\ train_dl = <<>>
    /\ test_dl = <<>>
    /\ item = NoItem

NextSplit == GetDataloader \/ Resplit

SpecSplit == InitSplit /\ [][NextSplit]_vars

(* the constructed dataset in use: samples are drawn through the loaders'
   subsets and the public splitter may be called again *)
NextLoader == GetDataloader \/ Resplit \/ GetItem

SpecLoader == InitSplit /\ [][NextLoader]_vars

----------------------------------------------------------------------------
(* DetectionDataset._read_annos, directory (Pascal VOC) mode *)

DefaultTrainPct == PctDen \div 2   \* train_pct: float = 0.5
DefaultRng == 0                    \* the generator of a fresh process

anno_idx == Len(seen)

(* mutant: a missing annotation file is treated as an annotation without
   boxes *)
ReadStatusLenient(optimized, exists, r) == IF ~exists THEN "ok" ELSE r.status
(* lines 250-253: the assert (absent under python -O), then the parse *)
ReadStatus(optimized, exists, r) ==
    IF ~optimized /\ ~exists THEN "AssertionError" ELSE r.status

(* mutant: annotations without boxes are not skipped *)
HasNoBoxesNever(bboxes) == FALSE
(* line 257 *)
HasNoBoxes(bboxes) == Len(bboxes) = 0

(* mutant: the image path of a record without mask stays in the list *)
DelLastForgotten(s) == s
(* line 271: del self.im_paths[-1] *)
DelLast(s) == SubSeq(s, 1, Len(s) - 1)

(* lines 213-216: the sorted listing of the image directory, by stem *)
ImPathsListing == [i \in 1 .. n_files |-> i]

(* mutant: the listing is indexed by the number of records kept so far *)
ListedImPathByCount(idx) == ImPathsListing[Len(im_paths) + 1]
(* line 263: im_paths[anno_idx] *)
ListedImPath(idx) == ImPathsListing[idx + 1]

SeenEntry(exists, nboxes, mask) ==
    [exists |-> exists, nboxes |-> nboxes, mask |-> mask]

(* one iteration of the loop over anno_filenames, lines 248-277 *)
ReadAnnoStep ==
    /\ pc = "read"
    /\ anno_idx < n_files
    /\ \E exists \in (IF im_dir THEN BOOLEAN ELSE {TRUE}),
          d \in Docs(anno_idx + 1, anno_idx + 1),
          mask_exists \in BOOLEAN, optimized \in BOOLEAN :
        LET k == anno_idx + 1
            r == parse_pascal_voc_anno(exists, d, None)
            status == ReadStatus(optimized, exists, r)
            im_path == IF im_dir THEN ListedImPath(anno_idx) ELSE r.im_path
            appended == Append(im_paths, im_path)
        IN  IF status # "ok"
            THEN /\ pc' = "failed"
                 /\ seen' = Append(seen, SeenEntry(exists, 0, TRUE))
                 /\ UNCHANGED <<im_paths, anno_paths, anno_bboxes, mask_paths>>
            ELSE IF HasNoBoxes(r.anno_bboxes)
            THEN /\ pc' = pc
                 /\ seen' = Append(seen, SeenEntry(exists, 0, TRUE))
                 /\ UNCHANGED <<im_paths, anno_paths, anno_bboxes, mask_paths>>
            ELSE IF mask_dir /\ ~mask_exists
            THEN /\ pc' = pc
                 /\ seen' = Append(seen, SeenEntry(exists, Len(r.anno_bboxes), FALSE))
                 /\ im_paths' = DelLast(appended)
                 /\ UNCHANGED <<anno_paths, anno_bboxes, mask_paths>>
            ELSE /\ pc' = pc
                 /\ seen' = Append(seen, SeenEntry(exists, Len(r.anno_bboxes), TRUE))
                 /\ im_paths' = appended
                 /\ mask_paths' = IF mask_dir THEN Append(mask_paths, im_path)
                                  ELSE mask_paths
                 /\ anno_paths' = Append(anno_paths, k)
                 /\ anno_bboxes' = Append(anno_bboxes, r.anno_bboxes)
    /\ UNCHANGED <<im_dir, mask_dir, n_files, labels, rerun_labels, seed,
                   train_pct, splitVars, parseVars, loaderVars>>

(* lines 282-286: the label names of all boxes, as list(set(labels)) *)
AllLabelNames(bboxes) ==
    UNION {{bboxes[i][j].label_name : j \in 1 .. Len(bboxes[i])} :
              i \in 1 .. Len(bboxes)}

(* mutant: the index is not shifted past the background class *)
LabelIdxZeroBased(lbls, name) == ListIndex(lbls, name)
(* lines 292-294 *)
LabelIdx(lbls, name) == ListIndex(lbls, name) + 1

SetLabelIdx(bboxes, lbls) ==
    [i \in 1 .. Len(bboxes) |->
        [j \in 1 .. Len(bboxes[i]) |->
            Box(bboxes[i][j].label_name,
                Some(LabelIdx(lbls, bboxes[i][j].label_name)),
                bboxes[i][j].im_path)]]

(* lines 279-294, after the loop.  The order of list(set(...)) is the      *)
(* set's iteration order, which follows the string hashes of the           *)
(* interpreter run; a second run on the same input draws its own order.    *)
GetLabels ==
    /\ pc = "read"
    /\ anno_idx = n_files
    /\ \E optimized \in BOOLEAN,
          order \in Orders(AllLabelNames(anno_bboxes)),
          order2 \in Orders(AllLabelNames(anno_bboxes)) :
        IF ~optimized /\ Len(im_paths) # Len(anno_paths)
        THEN /\ pc' = "failed"
             /\ UNCHANGED <<labels, rerun_labels, anno_bboxes>>
        ELSE /\ labels' = order
             /\ rerun_labels' = order2
             /\ anno_bboxes' = SetLabelIdx(anno_bboxes, order)
             /\ pc' = "indexed"
    /\ UNCHANGED <<im_dir, mask_dir, n_files, seen, im_paths, anno_paths,
                   mask_paths, seed, train_pct, splitVars, parseVars,
                   loaderVars>>

InitIndex ==
    /\ pc = "read"
    /\ im_dir \in BOOLEAN
    /\ mask_dir \in BOOLEAN
    /\ seed = None
    /\ train_pct = DefaultTrainPct
    /\ n_files \in 0 .. MaxFiles
    /\ seen = <<>>
    /\ im_paths = <<>>
    /\ anno_paths = <<>>
    /\ anno_bboxes = <<>>
    /\ mask_paths = <<>>
    /\ labels = <<>>
    /\ rerun_labels = <<>>
    /\ rng = DefaultRng
    /\ train_idx = <<>>
    /\ test_idx = <<>>
    /\ is_test = <<>>
    /\ split_pct = train_pct
    /\ n_splits = 0
    /\ doc = NoDoc
    /\ arg_labels = None
    /\ parsed = NoResult
    /\ train_dl = <<>>
    /\ test_dl = <<>>
    /\ item = NoItem

NextIndex == ReadAnnoStep \/ GetLabels \/ GetDataloader

SpecIndex == InitIndex /\ [][NextIndex]_vars

InitParse ==
    /\ pc = "parse"
    /\ im_dir = TRUE
    /\ mask_dir = FALSE
    /\ seed = None
    /\ train_pct = DefaultTrainPct
    /\ n_files = 0
    /\ seen = <<>>
    /\ im_paths = <<>>
    /\ anno_paths = <<>>
    /\ anno_bboxes = <<>>
    /\ mask_paths = <<>>
    /\ labels = <<>>
    /\ rerun_labels = <<>>
    /\ rng = DefaultRng
    /\ train_idx = <<>>
    /\ test_idx = <<>>
    /\ is_test = <<>>
    /\ split_pct = train_pct
    /\ n_splits = 0
    /\ doc \in Docs(1, 2)
    /\ arg_labels \in LabelArgs
    /\ parsed = NoResult
    /\ train_dl = <<>>
    /\ test_dl = <<>>
    /\ item = NoItem

SpecParse == InitParse /\ [][ParseAnno]_vars

----------------------------------------------------------------------------
(* Properties of split_train_test, checked under SpecSplit *)

HasSplit == n_splits >= 1
test_count == TestNum(DatasetLen, split_pct)
TrainSet == Range(train_idx)
TestSet == Range(test_idx)

(* C1: for N >= 1 and train_pct in (0,1] the train and test index sets are
   a partition of 0..N-1: no index is in both, every index is in exactly
   one. *)
C1_Partition ==
    (HasSplit /\ DatasetLen >= 1 /\ split_pct >= 1) =>
        /\ TrainSet \cap TestSet = {}
        /\ TrainSet \cup TestSet = 0 .. DatasetLen - 1
        /\ Len(train_idx) + Len(test_idx) = DatasetLen

C3_SizesSumToN ==
    HasSplit =>
        /\ Len(test_idx) = test_count
        /\ Len(train_idx) = DatasetLen - test_count
        /\ Len(test_idx) + Len(train_idx) = DatasetLen

(* C4: a split run again with the same explicit seed (0 included) on the
   same N and train_pct yields the same train indices, test indices and
   is_test array, whatever the generator state before it. *)
C4_SameSeedSameSplit ==
    [][(/\ HasSplit
        /\ n_splits' = n_splits + 1
        /\ seed # None
        /\ split_pct' = split_pct)
       => (/\ train_idx' = train_idx
           /\ test_idx' = test_idx
           /\ is_test' = is_test)]_vars

----------------------------------------------------------------------------
(* Properties of the dataset in use, checked under SpecLoader *)

(* C11: an index materialized through the train subset returned by
   split_train_test gets the train pipeline (transforms[0]) and one
   materialized through the test subset the test pipeline (transforms[1]);
   stated for the subsets of the constructor's split, before any other
   split. *)
C11_SubsetPipeline ==
    (pc = "constructed" /\ n_splits = 1) =>
        /\ item.ds = "train" => item.transform = 0
        /\ item.ds = "test" => item.transform = 1

(* C12: once the dataset is constructed no public operation (__getitem__,
   __len__, split_train_test) changes is_test, so the subsets of the
   loaders keep the pipeline of the split that made them. *)
C12_IsTestFrozen ==
    [][pc = "constructed" =>
         /\ is_test' = is_test
         /\ \A idx \in Range(train_dl) \cup Range(test_dl) :
                TransformIndex(idx)' = TransformIndex(idx)]_vars

----------------------------------------------------------------------------
(* Properties of index construction, checked under SpecIndex *)

Indexed == pc \in {"indexed", "constructed"}
Visited == 1 .. Len(seen)
ZeroBox == {i \in Visited : seen[i].nboxes = 0}
MaskMissing == {i \in Visited : seen[i].nboxes > 0 /\ ~seen[i].mask}
Retained == {i \in Visited : seen[i].nboxes > 0 /\ (mask_dir => seen[i].mask)}

(* C5: of N annotations of which K have no <object>, N-K records are
   indexed when mask mode is off and N-K-M when it is on and M of the
   remaining ones have no mask file; a record is retained iff it has a box
   and (mask mode) its mask file exists. *)
C5_RecordCount ==
    Indexed =>
        /\ Len(im_paths) =
              n_files - Cardinality(ZeroBox)
                      - (IF mask_dir THEN Cardinality(MaskMissing) ELSE 0)
        /\ Range(anno_paths) = Retained
        /\ Len(anno_paths) = Cardinality(Retained)

C5_Witness ==
    /\ Indexed
    /\ mask_dir
    /\ n_files = 3
    /\ Cardinality(ZeroBox) = 1
    /\ Cardinality(MaskMissing) = 1
    /\ Len(im_paths) = 1

(* C6: after index construction im_paths, anno_paths and anno_bboxes have
   the same length, and in mask mode mask_paths has that length too. *)
C6_ParallelLengths ==
    Indexed =>
        /\ Len(im_paths) = Len(anno_paths)
        /\ Len(anno_paths) = Len(anno_bboxes)
        /\ mask_dir => Len(mask_paths) = Len(im_paths)

C6_Witness ==
    /\ Indexed
    /\ mask_dir
    /\ Len(mask_paths) = 2
    /\ MaskMissing # {}

(* C7: after index construction every box of every record has an integer
   label_idx in 1..len(labels): none is None and none is 0. *)
C7_LabelIdxRange ==
    Indexed =>
        \A i \in 1 .. Len(anno_bboxes) : \A j \in 1 .. Len(anno_bboxes[i]) :
            /\ anno_bboxes[i][j].label_idx # None
            /\ anno_bboxes[i][j].label_idx[1] \in 1 .. Len(labels)

C7_Witness ==
    /\ Indexed
    /\ Len(labels) = 2
    /\ \E i \in 1 .. Len(anno_bboxes) : \E j \in 1 .. Len(anno_bboxes[i]) :
           anno_bboxes[i][j].label_idx = Some(2)

(* C8: two index constructions over the same input produce the same labels
   list, whatever the iteration order of the set of label names. *)
C8_LabelsDeterministic == Indexed => rerun_labels = labels

(* C10: with an image subfolder, a missing annotation file stops the
   construction at that file with a fatal error: no step follows it and no
   dataset is returned. *)
C10_MissingAnnoFatal ==
    \A i \in Visited :
        ~seen[i].exists =>
            /\ im_dir
            /\ pc = "failed"
            /\ i = Len(seen)
            /\ n_splits = 0

C10_Witness ==
    /\ pc = "failed"
    /\ seen # <<>>
    /\ ~seen[Len(seen)].exists
    /\ Len(im_paths) >= 1

(* C13: after index construction the parallel lists are aligned: at every
   retained position i the image path, the annotation path, the boxes and
   (mask mode) the mask path belong to the same image/annotation pair, and
   the positions follow the order of the retained annotations. *)
C13_Aligned ==
    Indexed =>
        /\ Len(im_paths) = Len(anno_paths)
        /\ Len(anno_bboxes) = Len(anno_paths)
        /\ mask_dir => Len(mask_paths) = Len(anno_paths)
        /\ \A i \in 1 .. Len(anno_paths) :
            LET k == anno_paths[i]
            IN  /\ k \in Retained
                /\ im_paths[i] = k
                /\ Len(anno_bboxes[i]) = seen[k].nboxes
                /\ \A j \in 1 .. Len(anno_bboxes[i]) :
                       anno_bboxes[i][j].im_path = k
                /\ mask_dir => mask_paths[i] = k
                /\ \A h \in 1 .. i - 1 : anno_paths[h] < k

(* a kept record behind a zero-box record and a mask-less record *)
C13_Witness ==
    /\ Indexed
    /\ mask_dir
    /\ n_files = 3
    /\ seen[1].nboxes = 0
    /\ seen[2].nboxes > 0 /\ ~seen[2].mask
    /\ im_paths = <<3>>
    /\ anno_paths = <<3>>
    /\ mask_paths = <<3>>

----------------------------------------------------------------------------
(* Properties of parse_pascal_voc_anno, checked under SpecParse *)

IsLeafWithText(found) ==
    found # None /\ found[1].children = 0 /\ found[1].text # None

(* every <name> is in the labels argument, when one is given *)
LabelsResolve ==
    arg_labels = None \/ Range(doc.objects) \subseteq Range(arg_labels[1])

(* C9: the image path comes from <path> whenever the annotation has one (a
   leaf element holding text), and from <filename> only when there is no
   <path> element. *)
C9_PathPreferred ==
    (pc = "parsed" /\ LabelsResolve) =>
        /\ IsLeafWithText(doc.path) =>
               /\ parsed.status = "ok"
               /\ parsed.im_path = doc.path[1].text[1]
        /\ (doc.path = None /\ IsLeafWithText(doc.filename)) =>
               /\ parsed.status = "ok"
               /\ parsed.im_path = doc.filename[1].text[1]

====
